---- MODULE Spec2Model ----
(***************************************************************************)
(* A model of minillm/model.py: the TinyLLM character-level language model *)
(* (vocabulary and dataset construction, forward and backward pass,        *)
(* full-batch training, greedy sampling) together with the process-wide    *)
(* random generator its constructor draws the initial parameters from.     *)
(*                                                                         *)
(* Strings are sequences of character codes.  A Python list is a sequence; *)
(* a vocabulary index i of the program is position i + 1 of the sequence.  *)
(* A float is a fixed-point number counted in units of 1/One, finite up to *)
(* FMax units, with the IEEE-754 values +inf, -inf and nan beside it.      *)
(***************************************************************************)
EXTENDS Integers, Sequences, FiniteSets, TLC

(***************************************************************************)
(* Bounds of the model.                                                    *)
(***************************************************************************)
\* largest finite magnitude of the modelled float format, in units
FMax == 1000
\* number of states of the modelled random generator
RngMod == 4
\* largest max_new passed to sample
MaxNew == 2
\* largest epochs passed to train, and the most epochs one instance is
\* trained for (a call of train counts as one epoch at least)
MaxEpochs == 2

(***************************************************************************)
(* Program constants.                                                      *)
(***************************************************************************)
\* random_matrix's default scale 0.1, which the constructor passes for W1
\* and W2: the unit of the fixed point
ScaleDense == 1
\* the scale 0.5 the constructor passes for the embedding matrix
ScaleEmbed == 5
\* "\n", the character that ends sampling
NL == 10
\* " ", str.rjust's fill character
SP == 32
\* seed=None
NoSeed == -1

\* 1.0
One == 10 * ScaleDense

(***************************************************************************)
(* Floats.                                                                 *)
(***************************************************************************)
PInf == FMax + 1
NInf == 0 - (FMax + 1)
NaN == FMax + 2

IsNaN(a) == a = NaN
IsInf(a) == a = PInf \/ a = NInf
IsFinite(a) == ~IsNaN(a) /\ ~IsInf(a)

\* the float nearest to the exact value n: overflow gives an infinity
Clamp(n) == IF n > FMax THEN PInf ELSE IF n < 0 - FMax THEN NInf ELSE n

\* n / d for d > 0, rounded to the nearest integer
RoundDiv(n, d) ==
    IF n >= 0 THEN (2 * n + d) \div (2 * d)
    ELSE 0 - ((2 * (0 - n) + d) \div (2 * d))

Sign(a) == IF a > 0 THEN 1 ELSE IF a < 0 THEN 0 - 1 ELSE 0

FNeg(a) == IF IsNaN(a) THEN NaN ELSE 0 - a

FAdd(a, b) ==
    IF IsNaN(a) \/ IsNaN(b) THEN NaN
    ELSE IF (a = PInf /\ b = NInf) \/ (a = NInf /\ b = PInf) THEN NaN
    ELSE IF a = PInf \/ b = PInf THEN PInf
    ELSE IF a = NInf \/ b = NInf THEN NInf
    ELSE Clamp(a + b)

FSub(a, b) == FAdd(a, FNeg(b))

FMul(a, b) ==
    IF IsNaN(a) \/ IsNaN(b) THEN NaN
    ELSE IF IsInf(a) \/ IsInf(b)
         THEN IF a = 0 \/ b = 0 THEN NaN
              ELSE IF Sign(a) * Sign(b) > 0 THEN PInf ELSE NInf
         ELSE Clamp(RoundDiv(a * b, One))

\* a / b; b = 0 raises ZeroDivisionError in the program and is an error here
FDiv(a, b) ==
    IF IsNaN(a) \/ IsNaN(b) THEN NaN
    ELSE IF IsInf(a) /\ IsInf(b) THEN NaN
    ELSE IF IsInf(b) THEN 0
    ELSE IF IsInf(a) THEN (IF Sign(a) * Sign(b) > 0 THEN PInf ELSE NInf)
    ELSE IF b >= 0 THEN Clamp(RoundDiv(a * One, b))
         ELSE Clamp(RoundDiv((0 - a) * One, 0 - b))

\* a > b, a <= b: every comparison with nan is false
FGt(a, b) == ~IsNaN(a) /\ ~IsNaN(b) /\ a > b
FLe(a, b) == ~IsNaN(a) /\ ~IsNaN(b) /\ a <= b
FGe(a, b) == ~IsNaN(a) /\ ~IsNaN(b) /\ a >= b

\* Python's max(a, b): b when b > a, else a
PyMax2(a, b) == IF FGt(b, a) THEN b ELSE a

\* One * exp(-k / One) for k = 0, 1, 2, ... units, rounded
ExpTable ==
    << 10, 9, 8, 7, 7, 6, 5, 5, 4, 4, 4, 3, 3, 3, 2, 2, 2, 2, 2, 1, 1, 1, 1,
       1, 1, 1, 1, 1, 1, 1, 0 >>

\* math.exp(a) for a <= 0, -inf and nan (softmax passes nothing else)
FExp(a) ==
    IF IsNaN(a) THEN NaN
    ELSE IF a = NInf THEN 0
    ELSE IF a = PInf THEN PInf
    ELSE IF 0 - a + 1 > Len(ExpTable) THEN 0
    ELSE ExpTable[0 - a + 1]

\* One * -log(p / One + 1e-12) for p = 0, 1, ..., One units, rounded
NegLogTable == << 276, 23, 16, 12, 9, 7, 5, 4, 2, 1, 0 >>

\* -math.log(p + 1e-12) for a probability p
FNegLog(p) == IF IsNaN(p) THEN NaN ELSE NegLogTable[p + 1]

(***************************************************************************)
(* The module's list helpers.                                              *)
(***************************************************************************)
\* a Python list: the sequence, evaluated once
List(f) == f \o << >>

zeros(rows, cols) == List([i \in 1..rows |-> List([j \in 1..cols |-> 0])])

zerovec(n) == List([i \in 1..n |-> 0])

\* sum(...) of a list of floats: 0 + v[1] + v[2] + ..., left to right
RECURSIVE SumTo(_, _)
SumTo(v, n) == IF n = 0 THEN 0 ELSE FAdd(SumTo(v, n - 1), v[n])

sum(v) == SumTo(v, Len(v))

\* zip(row, vec) stops at the shorter of the two
Min2(a, b) == IF a <= b THEN a ELSE b

dot(row, vec) ==
    sum(List([j \in 1..Min2(Len(row), Len(vec)) |-> FMul(row[j], vec[j])]))

matvec(mat, vec) == List([i \in 1..Len(mat) |-> dot(mat[i], vec)])

\* the contents of target after add_inplace(target, src)
add_inplace(target, src) ==
    List([i \in 1..Len(target) |->
        IF i <= Len(src) THEN FAdd(target[i], src[i]) ELSE target[i]])

relu(vec) == List([i \in 1..Len(vec) |-> PyMax2(0, vec[i])])

\* max(vec): the first element, replaced by each later one that is greater
RECURSIVE MaxTo(_, _)
MaxTo(v, n) == IF n = 1 THEN v[1] ELSE PyMax2(MaxTo(v, n - 1), v[n])

pymax(v) == MaxTo(v, Len(v))

softmax(vec) ==
    LET max_v == pymax(vec)
        exps == List([i \in 1..Len(vec) |-> FExp(FSub(vec[i], max_v))])
        total == sum(exps)
    IN  List([i \in 1..Len(exps) |-> FDiv(exps[i], total)])

(***************************************************************************)
(* The process-wide generator of the random module: seed sets its state,   *)
(* every random() advances it and returns state / RngMod in [0, 1).        *)
(***************************************************************************)
RngSeed(n) == n % RngMod

RngNext(s) == (s + 1) % RngMod

RECURSIVE RngAfter(_, _)
RngAfter(s, k) == IF k = 0 THEN s ELSE RngNext(RngAfter(s, k - 1))

\* random.uniform(a, b) == a + (b - a) * random(), drawn in state s
uniform(a, b, s) ==
    FAdd(a, FMul(FSub(b, a), RoundDiv(RngNext(s) * One, RngMod)))

\* random_matrix from generator state s: the matrix, drawn row by row, and
\* the generator's state after it
random_matrix(rows, cols, scale, s) ==
    [mat |-> List([i \in 1..rows |-> List([j \in 1..cols |->
                 uniform(0 - scale, scale,
                         RngAfter(s, (i - 1) * cols + (j - 1)))])]),
     rng |-> RngAfter(s, rows * cols)]

(***************************************************************************)
(* Vocabulary and dataset.                                                 *)
(***************************************************************************)
Chars(text) == {text[i] : i \in 1..Len(text)}

SetMin(S) == CHOOSE x \in S : \A y \in S : x <= y

SetMax(S) == CHOOSE x \in S : \A y \in S : x >= y

\* a sort in decreasing character code
RECURSIVE sorted_mut(_)
sorted_mut(S) ==
    IF S = {} THEN << >> ELSE << SetMax(S) >> \o sorted_mut(S \ {SetMax(S)})

\* sorted(S): increasing character code
RECURSIVE sorted(_)
sorted(S) ==
    IF S = {} THEN << >> ELSE << SetMin(S) >> \o sorted(S \ {SetMin(S)})

\* _build_vocab: vocab, stoi (character -> index) and itos (index ->
\* character, built by inverting stoi)
build_vocab(text) ==
    LET vocab == sorted(Chars(text))
        stoi == [ch \in Chars(text) |->
                    (CHOOSE i \in 1..Len(vocab) : vocab[i] = ch) - 1]
    IN  [vocab |-> vocab, stoi |-> stoi,
         itos |-> [i \in 0..(Len(vocab) - 1) |->
                      CHOOSE ch \in DOMAIN stoi : stoi[ch] = i]]

\* whether _encode(chars) raises KeyError
encode_fails(stoi, chars) == \E i \in 1..Len(chars) : chars[i] \notin DOMAIN stoi

\* _encode(chars) when it does not raise
encode(stoi, chars) == List([i \in 1..Len(chars) |-> stoi[chars[i]]])

\* text[a:b] for 0 <= a <= b <= len(text)
Slice(text, a, b) == List([i \in 1..(b - a) |-> text[a + i]])

\* a dataset whose targets are the last characters of the windows
build_dataset_mut(text, context, stoi) ==
    LET n == Len(text) - context
    IN  [inputs |-> List([k \in 1..n |->
                        encode(stoi, Slice(text, k - 1, k - 1 + context))]),
         targets |-> List([k \in 1..n |-> stoi[text[k + context - 1]]])]

\* _build_dataset: pair k (the program's i = k - 1) is the window
\* text[i : i + context] and the target text[i + context]
build_dataset(text, context, stoi) ==
    LET n == Len(text) - context
    IN  [inputs |-> List([k \in 1..n |->
                        encode(stoi, Slice(text, k - 1, k - 1 + context))]),
         targets |-> List([k \in 1..n |-> stoi[text[k + context]]])]

(***************************************************************************)
(* A TinyLLM instance, and the constructor.                                *)
(***************************************************************************)
\* no instance
NoModel == [exists |-> FALSE]

\* the generator's state after `if seed is not None: random.seed(seed)`
seeded_mut(seed, r0) == r0

seeded(seed, r0) == IF seed # NoSeed THEN RngSeed(seed) ELSE r0

\* a constructor that accepts len(text) == context
text_too_short_mut(text, context) == Len(text) < context

text_too_short(text, context) == Len(text) <= context

\* TinyLLM.__init__ with the generator in state r0: the outcome, the
\* instance (none when it raises) and the generator's state afterwards
init(text, context, embed_dim, hidden_dim, learning_rate, seed, r0) ==
    LET r1 == seeded(seed, r0)
    IN  IF text_too_short(text, context)
        THEN [outcome |-> "ValueError", self |-> NoModel, rng |-> r1]
        ELSE LET v == build_vocab(text)
                 ds == build_dataset(text, context, v.stoi)
                 vocab_size == Len(v.vocab)
                 input_dim == context * embed_dim
                 e == random_matrix(vocab_size, embed_dim, ScaleEmbed, r1)
                 w1 == random_matrix(hidden_dim, input_dim, ScaleDense, e.rng)
                 w2 == random_matrix(vocab_size, hidden_dim, ScaleDense, w1.rng)
             IN  [outcome |-> "ok",
                  self |-> [exists |-> TRUE,
                            context |-> context,
                            embed_dim |-> embed_dim,
                            hidden_dim |-> hidden_dim,
                            learning_rate |-> learning_rate,
                            vocab |-> v.vocab,
                            stoi |-> v.stoi,
                            itos |-> v.itos,
                            dataset |-> ds,
                            E |-> e.mat,
                            W1 |-> w1.mat,
                            b1 |-> zerovec(hidden_dim),
                            W2 |-> w2.mat,
                            b2 |-> zerovec(vocab_size)],
                  rng |-> w2.rng]

(***************************************************************************)
(* Forward and backward pass.                                              *)
(***************************************************************************)
\* a _forward whose first add_inplace has its arguments exchanged
forward_mut(m, x_idx) ==
    LET embed_vectors == List([p \in 1..Len(x_idx) |-> m.E[x_idx[p] + 1]])
        x_flat == List([k \in 1..(Len(x_idx) * m.embed_dim) |->
                      embed_vectors[((k - 1) \div m.embed_dim) + 1]
                                   [((k - 1) % m.embed_dim) + 1]])
        hidden_raw == matvec(m.W1, x_flat)
        hidden == relu(hidden_raw)
        logits == add_inplace(matvec(m.W2, hidden), m.b2)
        probs == softmax(logits)
    IN  [probs |-> probs,
         cache |-> [x_indices |-> x_idx, x_flat |-> x_flat, hidden |-> hidden,
                    hidden_raw |-> hidden_raw, probs |-> probs],
         self |-> [m EXCEPT !.b1 = add_inplace(m.b1, hidden_raw)]]

\* _forward: the probabilities, the cache, and the instance as the call
\* leaves it (add_inplace writes only to the fresh lists matvec returned)
forward(m, x_idx) ==
    LET embed_vectors == List([p \in 1..Len(x_idx) |-> m.E[x_idx[p] + 1]])
        x_flat == List([k \in 1..(Len(x_idx) * m.embed_dim) |->
                      embed_vectors[((k - 1) \div m.embed_dim) + 1]
                                   [((k - 1) % m.embed_dim) + 1]])
        hidden_raw == add_inplace(matvec(m.W1, x_flat), m.b1)
        hidden == relu(hidden_raw)
        logits == add_inplace(matvec(m.W2, hidden), m.b2)
        probs == softmax(logits)
    IN  [probs |-> probs,
         cache |-> [x_indices |-> x_idx, x_flat |-> x_flat, hidden |-> hidden,
                    hidden_raw |-> hidden_raw, probs |-> probs],
         self |-> m]

\* a scatter that assigns each slice to its row instead of adding it
RECURSIVE ScatterTo_mut(_, _, _, _)
ScatterTo_mut(m, x_indices, grad_x_flat, n) ==
    IF n = 0 THEN zeros(Len(m.vocab), m.embed_dim)
    ELSE LET g == ScatterTo_mut(m, x_indices, grad_x_flat, n - 1)
             pos == n - 1
             row == x_indices[n] + 1
         IN  [g EXCEPT ![row] =
                 List([d \in 1..m.embed_dim |->
                     grad_x_flat[pos * m.embed_dim + d]])]

\* grad_E after the first n positions of x_indices were scattered into it
RECURSIVE ScatterTo(_, _, _, _)
ScatterTo(m, x_indices, grad_x_flat, n) ==
    IF n = 0 THEN zeros(Len(m.vocab), m.embed_dim)
    ELSE LET g == ScatterTo(m, x_indices, grad_x_flat, n - 1)
             pos == n - 1
             row == x_indices[n] + 1
         IN  [g EXCEPT ![row] =
                 List([d \in 1..m.embed_dim |->
                     FAdd(g[row][d], grad_x_flat[pos * m.embed_dim + d])])]

\* _backward: the gradients of E, W1, b1, W2, b2 (and its local grad_x_flat)
backward(m, cache, target_idx) ==
    LET vocab_size == Len(m.vocab)
        input_dim == m.context * m.embed_dim
        grad_logits == List([i \in 1..Len(cache.probs) |->
                           IF i = target_idx + 1
                           THEN FSub(cache.probs[i], One)
                           ELSE cache.probs[i]])
        grad_W2 == List([i \in 1..vocab_size |-> List([j \in 1..m.hidden_dim |->
                       FMul(grad_logits[i], cache.hidden[j])])])
        grad_hidden_sum == List([j \in 1..m.hidden_dim |->
                               sum(List([i \in 1..vocab_size |->
                                       FMul(m.W2[i][j], grad_logits[i])]))])
        grad_hidden == List([j \in 1..m.hidden_dim |->
                           IF FLe(cache.hidden_raw[j], 0) THEN 0
                           ELSE grad_hidden_sum[j]])
        grad_W1 == List([j \in 1..m.hidden_dim |-> List([k \in 1..input_dim |->
                       FMul(grad_hidden[j], cache.x_flat[k])])])
        grad_x_flat == List([k \in 1..input_dim |->
                           sum(List([j \in 1..m.hidden_dim |->
                                   FMul(m.W1[j][k], grad_hidden[j])]))])
        grad_E == ScatterTo(m, cache.x_indices, grad_x_flat,
                            Len(cache.x_indices))
    IN  [gE |-> grad_E, gW1 |-> grad_W1, gb1 |-> grad_hidden,
         gW2 |-> grad_W2, gb2 |-> grad_logits, grad_x_flat |-> grad_x_flat]

\* p -= lr * g, element by element
step_vec(lr, p, g) == List([i \in 1..Len(p) |-> FSub(p[i], FMul(lr, g[i]))])

step_mat(lr, p, g) == List([i \in 1..Len(p) |-> step_vec(lr, p[i], g[i])])

\* _apply_grads: the instance after the update
apply_grads(m, grad_E, grad_W1, grad_b1, grad_W2, grad_b2) ==
    [m EXCEPT !.E = step_mat(m.learning_rate, m.E, grad_E),
              !.W1 = step_mat(m.learning_rate, m.W1, grad_W1),
              !.b1 = step_vec(m.learning_rate, m.b1, grad_b1),
              !.W2 = step_mat(m.learning_rate, m.W2, grad_W2),
              !.b2 = step_vec(m.learning_rate, m.b2, grad_b2)]

(***************************************************************************)
(* loss, predict_next and sample.  Each gives its outcome ("ok" or the     *)
(* exception raised), its value, the number of forward evaluations it ran  *)
(* and the instance as the call leaves it.                                 *)
(***************************************************************************)
\* total_loss and the instance after the first n pairs of loss()
RECURSIVE LossTo(_, _)
LossTo(m, n) ==
    IF n = 0 THEN [total |-> 0, self |-> m]
    ELSE LET prev == LossTo(m, n - 1)
             f == forward(prev.self, prev.self.dataset.inputs[n])
         IN  [total |-> FAdd(prev.total,
                             FNegLog(f.probs[prev.self.dataset.targets[n] + 1])),
              self |-> f.self]

loss(m) ==
    LET n == Len(m.dataset.inputs)
        r == LossTo(m, n)
    IN  [outcome |-> "ok", val |-> FDiv(r.total, n * One), forwards |-> n,
         self |-> r.self]

\* max(range(len(probs)), key=lambda i: probs[i]) over the first n indices:
\* index 0, replaced by each later index whose probability is greater
RECURSIVE ArgMaxTo(_, _)
ArgMaxTo(probs, n) ==
    IF n = 1 THEN 0
    ELSE LET best == ArgMaxTo(probs, n - 1)
         IN  IF FGt(probs[n], probs[best + 1]) THEN n - 1 ELSE best

\* a max that keeps the last of the greatest probabilities
argmax_mut(probs) ==
    CHOOSE i \in 0..(Len(probs) - 1) :
        /\ \A j \in 0..(Len(probs) - 1) : ~FGt(probs[j + 1], probs[i + 1])
        /\ \A j \in (i + 1)..(Len(probs) - 1) :
               FGt(probs[i + 1], probs[j + 1])

argmax(probs) == ArgMaxTo(probs, Len(probs))

\* a predict_next that encodes before it checks the length
predict_next_mut(m, context_text) ==
    IF encode_fails(m.stoi, context_text)
    THEN [outcome |-> "KeyError", ch |-> 0, probs |-> << >>, forwards |-> 0,
          self |-> m]
    ELSE IF Len(context_text) # m.context
    THEN [outcome |-> "ValueError", ch |-> 0, probs |-> << >>, forwards |-> 0,
          self |-> m]
    ELSE LET f == forward(m, encode(m.stoi, context_text))
         IN  [outcome |-> "ok", ch |-> m.itos[argmax(f.probs)],
              probs |-> f.probs, forwards |-> 1, self |-> f.self]

predict_next(m, context_text) ==
    IF Len(context_text) # m.context
    THEN [outcome |-> "ValueError", ch |-> 0, probs |-> << >>, forwards |-> 0,
          self |-> m]
    ELSE IF encode_fails(m.stoi, context_text)
    THEN [outcome |-> "KeyError", ch |-> 0, probs |-> << >>, forwards |-> 0,
          self |-> m]
    ELSE LET f == forward(m, encode(m.stoi, context_text))
         IN  [outcome |-> "ok", ch |-> m.itos[argmax(f.probs)],
              probs |-> f.probs, forwards |-> 1, self |-> f.self]

\* seed.rjust(width): spaces on the left up to width characters
rjust(seed, width) ==
    IF Len(seed) >= width THEN seed
    ELSE List([i \in 1..(width - Len(seed)) |-> SP]) \o seed

\* s[-n:] for n >= 1
LastN(s, n) == IF Len(s) <= n THEN s ELSE SubSeq(s, Len(s) - n + 1, Len(s))

\* a loop that does not stop at a newline
RECURSIVE sample_loop_mut(_, _, _, _)
sample_loop_mut(m, generated, left, forwards) ==
    IF left = 0
    THEN [outcome |-> "ok", text |-> generated, forwards |-> forwards,
          self |-> m]
    ELSE LET p == predict_next(m, LastN(generated, m.context))
         IN  IF p.outcome # "ok"
             THEN [outcome |-> p.outcome, text |-> << >>,
                   forwards |-> forwards + p.forwards, self |-> p.self]
             ELSE sample_loop_mut(p.self, Append(generated, p.ch), left - 1,
                                  forwards + p.forwards)

\* the loop of sample with `left` iterations to go
RECURSIVE sample_loop(_, _, _, _)
sample_loop(m, generated, left, forwards) ==
    IF left = 0
    THEN [outcome |-> "ok", text |-> generated, forwards |-> forwards,
          self |-> m]
    ELSE LET p == predict_next(m, LastN(generated, m.context))
         IN  IF p.outcome # "ok"
             THEN [outcome |-> p.outcome, text |-> << >>,
                   forwards |-> forwards + p.forwards, self |-> p.self]
             ELSE IF p.ch = NL
             THEN [outcome |-> "ok", text |-> Append(generated, p.ch),
                   forwards |-> forwards + p.forwards, self |-> p.self]
             ELSE sample_loop(p.self, Append(generated, p.ch), left - 1,
                              forwards + p.forwards)

sample(m, seed, max_new) ==
    LET padded == IF Len(seed) < m.context THEN rjust(seed, m.context)
                  ELSE seed
    IN  sample_loop(m, LastN(padded, m.context), max_new, 0)

(***************************************************************************)
(* The inputs the calls are made with.                                     *)
(***************************************************************************)
\* the instances a script constructs, in the order it constructs them
Slots == {1, 2}

\* "a", "ab", "bab", "b\na", " a b", "abba"
Texts ==
    { << 97 >>, << 97, 98 >>, << 98, 97, 98 >>, << 98, NL, 97 >>,
      << SP, 97, SP, 98 >>, << 97, 98, 98, 97 >> }

Contexts == {1, 2}
EmbedDims == {1, 2}
HiddenDims == {1}
\* 0.2 and 20.0
LearningRates == {2, 200}
Seeds == {NoSeed, 1, 2}

\* "", "a", "b", "\n", "ab", "ba", "zb", "aba", "zzz"
ContextTexts ==
    { << >>, << 97 >>, << 98 >>, << NL >>, << 97, 98 >>, << 98, 97 >>,
      << 122, 98 >>, << 97, 98, 97 >>, << 122, 122, 122 >> }

\* "", "a", "b", "ab", "za", "bab"
SampleSeeds ==
    { << >>, << 97 >>, << 98 >>, << 97, 98 >>, << 122, 97 >>,
      << 98, 97, 98 >> }

ReportEverys == {0, 1, 2}

(***************************************************************************)
(* The state: the random module's generator, the instances bound to the    *)
(* slots, the call of train in progress, and the last call that returned   *)
(* or raised (none once the caller has taken its result).  hist records, for each slot's instance, the arguments it    *)
(* was constructed with and the train calls made on it since.              *)
(***************************************************************************)
VARIABLES rng, models, call, last, hist

vars == << rng, models, call, last, hist >>

Idle == [op |-> "idle"]

NoCall ==
    [op |-> "none", slot |-> 0, arg |-> << >>, cfg |-> << >>, n |-> 0,
     n2 |-> 0, outcome |-> "ok", text |-> << >>, ch |-> 0, probs |-> << >>,
     val |-> 0, forwards |-> 0]

NoHist == [text |-> << >>, seed |-> NoSeed, epochs |-> 0, trained |-> << >>]

\* the interpreter seeds the generator from the system's entropy at import
Init ==
    /\ rng \in 0..(RngMod - 1)
    /\ models = [s \in Slots |-> NoModel]
    /\ call = Idle
    /\ last = NoCall
    /\ hist = [s \in Slots |-> NoHist]

\* no call is in progress and the caller has taken the last call's result
Ready == call = Idle /\ last = NoCall

\* the caller takes the result of the call that ended and goes on
Resume ==
    /\ call = Idle
    /\ last # NoCall
    /\ last' = NoCall
    /\ UNCHANGED << rng, models, call, hist >>

\* models[s] = TinyLLM(text, context, embed_dim, hidden_dim, learning_rate, seed)
Construct(s, text, context, embed_dim, hidden_dim, learning_rate, seed) ==
    /\ Ready
    /\ ~models[s].exists
    /\ LET r == init(text, context, embed_dim, hidden_dim, learning_rate,
                     seed, rng)
       IN  /\ rng' = r.rng
           /\ models' = IF r.outcome = "ok"
                        THEN [models EXCEPT ![s] = r.self]
                        ELSE models
           /\ hist' = IF r.outcome = "ok"
                      THEN [hist EXCEPT ![s] = [text |-> text, seed |-> seed,
                                                epochs |-> 0,
                                                trained |-> << >>]]
                      ELSE hist
           /\ last' = [NoCall EXCEPT
                          !.op = "construct", !.slot = s, !.arg = text,
                          !.cfg = << context, embed_dim, hidden_dim,
                                     learning_rate, seed >>,
                          !.outcome = r.outcome]
    /\ call' = call

\* models[s].loss()
Loss(s) ==
    /\ Ready
    /\ models[s].exists
    /\ LET r == loss(models[s])
       IN  /\ models' = [models EXCEPT ![s] = r.self]
           /\ last' = [NoCall EXCEPT !.op = "loss", !.slot = s,
                                     !.outcome = r.outcome, !.val = r.val,
                                     !.forwards = r.forwards]
    /\ UNCHANGED << rng, call, hist >>

\* models[s].predict_next(context_text)
PredictNext(s, context_text) ==
    /\ Ready
    /\ models[s].exists
    /\ LET r == predict_next(models[s], context_text)
       IN  /\ models' = [models EXCEPT ![s] = r.self]
           /\ last' = [NoCall EXCEPT !.op = "predict_next", !.slot = s,
                                     !.arg = context_text,
                                     !.outcome = r.outcome, !.ch = r.ch,
                                     !.probs = r.probs,
                                     !.forwards = r.forwards]
    /\ UNCHANGED << rng, call, hist >>

\* models[s].sample(seed, max_new)
Sample(s, seed, max_new) ==
    /\ Ready
    /\ models[s].exists
    /\ LET r == sample(models[s], seed, max_new)
       IN  /\ models' = [models EXCEPT ![s] = r.self]
           /\ last' = [NoCall EXCEPT !.op = "sample", !.slot = s,
                                     !.arg = seed, !.n = max_new,
                                     !.outcome = r.outcome, !.text = r.text,
                                     !.forwards = r.forwards]
    /\ UNCHANGED << rng, call, hist >>

(***************************************************************************)
(* train, one step of its loops at a time.  The program is single-threaded *)
(* and train does not return before its loops end: while call is a train   *)
(* frame no other call is made.                                            *)
(***************************************************************************)
Max2(a, b) == IF a >= b THEN a ELSE b

\* models[s].train(epochs, report_every) is called: num_samples is read and
\* the epoch loop starts at epoch 1.  With track, the call is appended to
\* the instance's history when it ends.
TrainCall(s, epochs, report_every, track) ==
    /\ Ready
    /\ models[s].exists
    /\ hist[s].epochs + Max2(epochs, 1) <= MaxEpochs
    /\ call' = [op |-> "train", slot |-> s, epochs |-> epochs,
                report_every |-> report_every, track |-> track,
                num_samples |-> Len(models[s].dataset.inputs),
                epoch |-> 1, pc |-> "head", i |-> 0, total_loss |-> 0,
                gE |-> << >>, gW1 |-> << >>, gb1 |-> << >>, gW2 |-> << >>,
                gb2 |-> << >>, updates |-> 0, reports |-> 0]
    /\ last' = NoCall
    /\ UNCHANGED << rng, models, hist >>

\* what train leaves behind when it returns or raises
TrainEnds(outcome, updates, reports) ==
    /\ call' = Idle
    /\ last' = [NoCall EXCEPT !.op = "train", !.slot = call.slot,
                              !.n = call.epochs, !.n2 = updates,
                              !.cfg = << call.report_every, reports >>,
                              !.outcome = outcome]
    /\ hist' = [hist EXCEPT
                   ![call.slot].epochs = @ + Max2(call.epochs, 1),
                   ![call.slot].trained =
                       IF call.track
                       THEN Append(@, << call.epochs, call.report_every >>)
                       ELSE @]

\* for epoch in range(1, epochs + 1)
epoch_in_range(epoch, epochs) == epoch <= epochs

\* the head of the epoch loop: the next epoch starts with zeroed
\* accumulators, or the loop is over and train returns
TrainEpochHead ==
    /\ call.op = "train"
    /\ call.pc = "head"
    /\ LET m == models[call.slot]
       IN  IF epoch_in_range(call.epoch, call.epochs)
           THEN /\ call' = [call EXCEPT
                     !.pc = "pair", !.i = 1, !.total_loss = 0,
                     !.gE = zeros(Len(m.vocab), m.embed_dim),
                     !.gW1 = zeros(m.hidden_dim, m.context * m.embed_dim),
                     !.gb1 = zerovec(m.hidden_dim),
                     !.gW2 = zeros(Len(m.vocab), m.hidden_dim),
                     !.gb2 = zerovec(Len(m.vocab))]
                /\ UNCHANGED << last, hist >>
           ELSE TrainEnds("ok", call.updates, call.reports)
    /\ UNCHANGED << rng, models >>

\* an accumulation that keeps only the gradient of the last pair
acc_vec_mut(target, src) == src

\* target[i] += src[i], target[i][j] += src[i][j]
acc_vec(target, src) == List([i \in 1..Len(target) |-> FAdd(target[i], src[i])])

acc_mat(target, src) == List([i \in 1..Len(target) |-> acc_vec(target[i], src[i])])

\* one pass of the loop over the dataset: forward, loss, backward, and the
\* gradients added to the accumulators
TrainPair ==
    /\ call.op = "train"
    /\ call.pc = "pair"
    /\ LET m == models[call.slot]
           target_idx == m.dataset.targets[call.i]
           f == forward(m, m.dataset.inputs[call.i])
           g == backward(f.self, f.cache, target_idx)
       IN  /\ models' = [models EXCEPT ![call.slot] = f.self]
           /\ call' = [call EXCEPT
                  !.total_loss = FAdd(@, FNegLog(f.probs[target_idx + 1])),
                  !.gE = acc_mat(@, g.gE),
                  !.gW1 = acc_mat(@, g.gW1),
                  !.gb1 = acc_vec(@, g.gb1),
                  !.gW2 = acc_mat(@, g.gW2),
                  !.gb2 = acc_vec(@, g.gb2),
                  !.i = @ + 1,
                  !.pc = IF call.i = Len(m.dataset.inputs) THEN "update"
                         ELSE "pair"]
    /\ UNCHANGED << rng, last, hist >>

\* g *= inv_n, element by element
scale_vec(g, inv_n) == List([i \in 1..Len(g) |-> FMul(g[i], inv_n)])

scale_mat(g, inv_n) == List([i \in 1..Len(g) |-> scale_vec(g[i], inv_n)])

\* the end of an epoch: the accumulated gradients are averaged and applied,
\* then `epoch % report_every` decides whether the loss is printed, and
\* raises ZeroDivisionError when report_every is 0
TrainUpdate ==
    /\ call.op = "train"
    /\ call.pc = "update"
    /\ LET m == models[call.slot]
           inv_n == FDiv(One, call.num_samples * One)
       IN  models' = [models EXCEPT ![call.slot] =
                         apply_grads(m, scale_mat(call.gE, inv_n),
                                     scale_mat(call.gW1, inv_n),
                                     scale_vec(call.gb1, inv_n),
                                     scale_mat(call.gW2, inv_n),
                                     scale_vec(call.gb2, inv_n))]
    /\ IF call.report_every = 0
       THEN TrainEnds("ZeroDivisionError", call.updates + 1, call.reports)
       ELSE /\ call' = [call EXCEPT
                   !.updates = @ + 1,
                   !.reports = IF call.epoch % call.report_every = 0
                               THEN @ + 1 ELSE @,
                   !.epoch = @ + 1,
                   !.pc = "head"]
            /\ UNCHANGED << last, hist >>
    /\ rng' = rng

(***************************************************************************)
(* The specifications.  Spec: a script that works with one instance.       *)
(* SpecPair: a script that constructs and trains two.                      *)
(***************************************************************************)
TrainStep == TrainEpochHead \/ TrainPair \/ TrainUpdate

Next ==
    \/ \E text \in Texts, context \in Contexts, embed_dim \in EmbedDims,
          hidden_dim \in HiddenDims, learning_rate \in LearningRates,
          seed \in Seeds :
          Construct(1, text, context, embed_dim, hidden_dim, learning_rate,
                    seed)
    \/ Loss(1)
    \/ \E context_text \in ContextTexts : PredictNext(1, context_text)
    \/ \E seed \in SampleSeeds, max_new \in 0..MaxNew :
          Sample(1, seed, max_new)
    \/ \E epochs \in 0..MaxEpochs, report_every \in ReportEverys :
          TrainCall(1, epochs, report_every, FALSE)
    \/ TrainStep
    \/ Resume

Spec == Init /\ [][Next]_vars

\* "a", "ab"
PairTexts == { << 97 >>, << 97, 98 >> }

NextPair ==
    \/ \E s \in Slots, text \in PairTexts, learning_rate \in LearningRates,
          seed \in Seeds :
          Construct(s, text, 1, 1, 1, learning_rate, seed)
    \/ \E s \in Slots, epochs \in 1..MaxEpochs : TrainCall(s, epochs, 1, TRUE)
    \/ TrainStep
    \/ Resume

SpecPair == Init /\ [][NextPair]_vars

(***************************************************************************)
(* The claims.                                                             *)
(***************************************************************************)
\* the instance the last call was made on, and its context
LastModel == models[last.slot]

\* the first `context` characters sample starts from: the seed's last
\* `context` characters, with spaces before a seed shorter than that
Window(seed, context) ==
    [i \in 1..context |->
        IF Len(seed) >= context THEN seed[Len(seed) - context + i]
        ELSE IF i <= context - Len(seed) THEN SP
        ELSE seed[i - (context - Len(seed))]]

\* C1: sample never fails, for any seed and any max_new >= 0: a string is
\* returned.
C1_SampleNeverFails ==
    last.op = "sample" => last.outcome = "ok"

\* C2: the string sample returns is the initial window of `context`
\* characters followed by a suffix of at most max_new characters; the suffix
\* is shorter than max_new only if it ends in a newline, and it holds a
\* newline nowhere but at its end.
C2_SampleShape ==
    (last.op = "sample" /\ last.outcome = "ok") =>
        LET context == LastModel.context
            k == Len(last.text) - context
        IN  /\ k >= 0
            /\ k <= last.n
            /\ \A i \in 1..context :
                   last.text[i] = Window(last.arg, context)[i]
            /\ k < last.n => (k >= 1 /\ last.text[context + k] = NL)
            /\ \A i \in 1..(k - 1) : last.text[context + i] # NL

\* a sample that stopped at a newline before max_new characters
C2_Witness ==
    /\ last.op = "sample"
    /\ last.outcome = "ok"
    /\ Len(last.text) - LastModel.context = 1
    /\ last.n = 2

\* the two instances were constructed with the same text, hyperparameters
\* and seed (not None), and the same train calls were made on both
SameCalls(s1, s2) ==
    /\ models[s1].exists
    /\ models[s2].exists
    /\ hist[s1] = hist[s2]
    /\ hist[s1].seed # NoSeed
    /\ models[s1].context = models[s2].context
    /\ models[s1].embed_dim = models[s2].embed_dim
    /\ models[s1].hidden_dim = models[s2].hidden_dim
    /\ models[s1].learning_rate = models[s2].learning_rate

\* C3: two instances constructed with the same text, hyperparameters and
\* seed have the same E, W1, b1, W2, b2 and, after the same train calls,
\* give the same results for loss, predict_next and sample, whatever was
\* constructed or called before or between.
C3_Deterministic ==
    call = Idle =>
        \A s1, s2 \in Slots : SameCalls(s1, s2) =>
            LET m1 == models[s1]
                m2 == models[s2]
            IN  /\ m1.E = m2.E
                /\ m1.W1 = m2.W1
                /\ m1.b1 = m2.b1
                /\ m1.W2 = m2.W2
                /\ m1.b2 = m2.b2
                /\ loss(m1).val = loss(m2).val
                /\ \A c \in ContextTexts :
                       LET p1 == predict_next(m1, c)
                           p2 == predict_next(m2, c)
                       IN  /\ p1.outcome = p2.outcome
                           /\ p1.ch = p2.ch
                           /\ p1.probs = p2.probs
                /\ \A seed \in SampleSeeds :
                       LET t1 == sample(m1, seed, MaxNew)
                           t2 == sample(m2, seed, MaxNew)
                       IN  t1.outcome = t2.outcome /\ t1.text = t2.text

\* two instances of the same construction, both trained, the second made
\* when the generator was no longer in the state the first found
C3_Witness ==
    /\ call = Idle
    /\ SameCalls(1, 2)
    /\ Len(hist[1].trained) >= 1
    /\ last.op = "train"
    /\ last.slot = 2

\* C4: the constructor raises ValueError exactly when len(text) <= context
\* and succeeds exactly when len(text) > context; a failed construction
\* leaves no instance.
C4_ConstructorLength ==
    last.op = "construct" =>
        /\ last.outcome = "ValueError" <=> Len(last.arg) <= last.cfg[1]
        /\ last.outcome = "ok" <=> Len(last.arg) > last.cfg[1]
        /\ last.outcome = "ValueError" => ~LastModel.exists
        /\ last.outcome = "ok" => LastModel.exists

\* a construction with len(text) == context, which failed
C4_Witness ==
    /\ last.op = "construct"
    /\ Len(last.arg) = last.cfg[1]
    /\ last.outcome = "ValueError"

\* C5: predict_next raises ValueError for every context_text whose length
\* is not `context`, whatever its characters, and runs no forward
\* evaluation before it does.
C5_PredictLength ==
    (last.op = "predict_next" /\ Len(last.arg) # LastModel.context) =>
        (last.outcome = "ValueError" /\ last.forwards = 0)

\* a context_text one character too long, of characters the vocabulary
\* does not hold, was refused
C5_Witness ==
    /\ last.op = "predict_next"
    /\ Len(last.arg) = LastModel.context + 1
    /\ \A i \in 1..Len(last.arg) : last.arg[i] \notin DOMAIN LastModel.stoi
    /\ last.outcome = "ValueError"

\* C6: loss, predict_next and sample, successful or failing, leave E, W1,
\* b1, W2, b2, the vocabulary mappings and the dataset as they were: only
\* the update step of train changes the parameters, and nothing changes the
\* vocabulary or the dataset of an instance.
C6_Frame ==
    [][\A s \in Slots : models[s].exists =>
          /\ models'[s].exists
          /\ models'[s].vocab = models[s].vocab
          /\ models'[s].stoi = models[s].stoi
          /\ models'[s].itos = models[s].itos
          /\ models'[s].dataset = models[s].dataset
          /\ ~(call.op = "train" /\ call.pc = "update" /\ call.slot = s) =>
                 /\ models'[s].E = models[s].E
                 /\ models'[s].W1 = models[s].W1
                 /\ models'[s].b1 = models[s].b1
                 /\ models'[s].W2 = models[s].W2
                 /\ models'[s].b2 = models[s].b2]_vars

\* a sample on a trained instance that ran two forward evaluations
C6_Witness ==
    /\ last.op = "sample"
    /\ last.outcome = "ok"
    /\ last.forwards >= 2
    /\ hist[last.slot].epochs >= 1

\* C7: train returns after exactly `epochs` epochs, each with exactly one
\* update, for every epochs >= 0 (and every report_every).
C7_TrainRunsAllEpochs ==
    last.op = "train" => (last.outcome = "ok" /\ last.n2 = last.n)

\* C8: the dataset holds len(text) - context >= 1 pairs; pair i has as
\* input the `context` vocabulary indices of text[i : i + context], in
\* order, and as target the vocabulary index of text[i + context].
C8_Dataset ==
    \A s \in Slots : models[s].exists =>
        LET m == models[s]
            text == hist[s].text
            n == Len(text) - m.context
        IN  /\ n >= 1
            /\ Len(m.dataset.inputs) = n
            /\ Len(m.dataset.targets) = n
            /\ \A k \in 1..n :
                   /\ Len(m.dataset.inputs[k]) = m.context
                   /\ \A p \in 1..m.context :
                          m.dataset.inputs[k][p] = m.stoi[text[k - 1 + p]]
                   /\ m.dataset.targets[k] = m.stoi[text[k + m.context]]

\* an instance with two pairs of two-character windows
C8_Witness ==
    \E s \in Slots :
        /\ models[s].exists
        /\ models[s].context = 2
        /\ Len(models[s].dataset.inputs) = 2
        /\ models[s].dataset.inputs[1] # models[s].dataset.inputs[2]

\* C9: the indexable symbols are exactly the distinct characters of the
\* text, the indices are 0..vocab_size-1 in increasing character code, and
\* stoi and itos are inverse to each other.
C9_Vocabulary ==
    \A s \in Slots : models[s].exists =>
        LET m == models[s]
            chars == Chars(hist[s].text)
            size == Cardinality(chars)
        IN  /\ DOMAIN m.stoi = chars
            /\ Len(m.vocab) = size
            /\ {m.stoi[c] : c \in chars} = 0..(size - 1)
            /\ \A c, d \in chars : c < d => m.stoi[c] < m.stoi[d]
            /\ DOMAIN m.itos = 0..(size - 1)
            /\ \A i \in 0..(size - 1) :
                   m.stoi[m.itos[i]] = i /\ m.vocab[i + 1] = m.itos[i]
            /\ \A c \in chars : m.itos[m.stoi[c]] = c

\* an instance of a text that repeats a character and is not in order
C9_Witness ==
    \E s \in Slots :
        /\ models[s].exists
        /\ Len(hist[s].text) > Cardinality(Chars(hist[s].text))
        /\ hist[s].text[1] > hist[s].text[2]

\* accumulated rounding of a probability vector: half a unit an entry
Abs(a) == IF a >= 0 THEN a ELSE 0 - a

\* C10: for a context of `context` vocabulary characters and any
\* parameters training reaches, predict_next returns a vector as long as
\* the vocabulary, of entries >= 0, that sums to 1 within the tolerance
\* (here: within the rounding of its entries).
C10_ProbsValid ==
    (last.op = "predict_next" /\ last.outcome = "ok") =>
        /\ Len(last.probs) = Len(LastModel.vocab)
        /\ \A i \in 1..Len(last.probs) : FGe(last.probs[i], 0)
        /\ IsFinite(sum(last.probs))
        /\ 2 * Abs(sum(last.probs) - One) <= Len(last.probs)

\* the vectors without nan are as C10 says
ProbsValidUnlessNaN ==
    (last.op = "predict_next" /\ last.outcome = "ok"
        /\ \A i \in 1..Len(last.probs) : ~IsNaN(last.probs[i])) =>
        /\ Len(last.probs) = Len(LastModel.vocab)
        /\ \A i \in 1..Len(last.probs) : FGe(last.probs[i], 0)
        /\ 2 * Abs(sum(last.probs) - One) <= Len(last.probs)

\* index i holds a maximal probability of probs (none is greater) and every
\* lower index holds a smaller one
IsFirstMax(probs, i) ==
    /\ i \in 0..(Len(probs) - 1)
    /\ \A j \in 0..(Len(probs) - 1) : ~FGt(probs[j + 1], probs[i + 1])
    /\ \A j \in 0..(i - 1) : FGt(probs[i + 1], probs[j + 1])

\* C11: the character predict_next returns, and each character a sample
\* step appends, is the vocabulary symbol of maximal probability in the
\* vector returned for its window, and of the symbols that share the
\* maximal probability the one with the lowest vocabulary index.
C11_ArgMax ==
    /\ (last.op = "predict_next" /\ last.outcome = "ok") =>
           /\ last.ch \in DOMAIN LastModel.stoi
           /\ IsFirstMax(last.probs, LastModel.stoi[last.ch])
    /\ (last.op = "sample" /\ last.outcome = "ok") =>
           LET m == LastModel
           IN  \A i \in 1..(Len(last.text) - m.context) :
                   LET window == SubSeq(last.text, i, i + m.context - 1)
                       p == predict_next(m, window)
                   IN  /\ p.outcome = "ok"
                       /\ last.text[m.context + i] = p.ch
                       /\ IsFirstMax(p.probs, m.stoi[p.ch])

\* a prediction on a trained instance whose greatest probability is shared
\* by the first and the last symbol of a vocabulary of three, with a
\* smaller one between them: the first was returned
C11_Witness ==
    /\ last.op = "predict_next"
    /\ last.outcome = "ok"
    /\ hist[last.slot].epochs >= 1
    /\ Len(last.probs) = 3
    /\ ~IsNaN(last.probs[1])
    /\ last.probs[1] = last.probs[3]
    /\ FGt(last.probs[1], last.probs[2])
    /\ LastModel.stoi[last.ch] = 0

\* the gradients of pair k of the dataset, evaluated with the parameters of m
PairGrad(m, k) ==
    backward(m, forward(m, m.dataset.inputs[k]).cache, m.dataset.targets[k])

\* the loss of pair k of the dataset, evaluated with the parameters of m
PairLoss(m, k) ==
    FNegLog(forward(m, m.dataset.inputs[k]).probs[m.dataset.targets[k] + 1])

\* p - learning_rate * (sum over all pairs of the element's gradient) / n
Stepped(m, p, gs) ==
    FSub(p, FMul(m.learning_rate,
                 FMul(sum(gs), FDiv(One, Len(m.dataset.inputs) * One))))

\* the instance m after one update with the gradients of all its pairs,
\* each evaluated with the parameters of m
EpochUpdate(m) ==
    LET n == Len(m.dataset.inputs)
        g == [k \in 1..n |-> PairGrad(m, k)] \o << >>
        mat(p, f) ==
            [i \in 1..Len(p) |-> [j \in 1..Len(p[i]) |->
                Stepped(m, p[i][j], [k \in 1..n |-> g[k][f][i][j]])]]
        vec(p, f) ==
            [i \in 1..Len(p) |->
                Stepped(m, p[i], [k \in 1..n |-> g[k][f][i]])]
    IN  [m EXCEPT !.E = mat(m.E, "gE"), !.W1 = mat(m.W1, "gW1"),
                  !.b1 = vec(m.b1, "gb1"), !.W2 = mat(m.W2, "gW2"),
                  !.b2 = vec(m.b2, "gb2")]

\* C12: while train works through the pairs of an epoch the parameters stay
\* as they were at the start of the epoch; after the last pair one update
\* is applied, in which every element p of E, W1, b1, W2, b2 becomes
\* p - learning_rate * (sum over all pairs of the element's gradient at
\* the epoch's parameters) / (number of pairs), and the epoch's accumulated
\* loss is that of the epoch's parameters.
C12_EpochUpdate ==
    [][call.op = "train" =>
          LET m == models[call.slot]
          IN  /\ call.pc # "update" => models' = models
              /\ call.pc = "update" =>
                    /\ models' = [models EXCEPT ![call.slot] = EpochUpdate(m)]
                    /\ call.total_loss =
                           sum([k \in 1..Len(m.dataset.inputs) |->
                                   PairLoss(m, k)])
                    /\ call.i = Len(m.dataset.inputs) + 1]_vars

\* the second update of a train call on a dataset of two or more pairs has
\* been applied, with gradients that were not all zero
C12_Witness ==
    /\ call.op = "train"
    /\ call.pc = "head"
    /\ call.updates = 2
    /\ call.num_samples >= 2
    /\ \E i \in 1..Len(call.gE), j \in 1..Len(call.gE[1]) :
           call.gE[i][j] # 0 /\ IsFinite(call.gE[i][j])

\* the backward pass for window x and target t with the parameters of m:
\* row v of the embedding gradient is the sum of the slices of grad_x_flat
\* of the positions that hold v, which are the slices where the forward
\* pass put the embedding rows
ScatterHolds(m, x, t) ==
    LET f == forward(m, x)
        g == backward(m, f.cache, t)
    IN  /\ \A v \in 0..(Len(m.vocab) - 1), d \in 1..m.embed_dim :
               g.gE[v + 1][d] =
                   sum([p \in 1..Len(x) |->
                           IF x[p] = v
                           THEN g.grad_x_flat[(p - 1) * m.embed_dim + d]
                           ELSE 0])
        /\ \A p \in 1..Len(x), d \in 1..m.embed_dim :
               f.cache.x_flat[(p - 1) * m.embed_dim + d] = m.E[x[p] + 1][d]

\* C13: in the backward pass, for every context window x and every
\* vocabulary index v, row v of the embedding gradient is the element-wise
\* sum of the slices of d_x_flat of the positions p with x[p] = v, the
\* slices where the forward pass placed E[x[p]]: zero for an index that is
\* not in the window, the sum of all its slices for one that occurs at
\* several positions.
C13_ScatterAccumulate ==
    call.op = "train" =>
        LET m == models[call.slot]
            idx == 0..(Len(m.vocab) - 1)
        IN  \A x \in [1..m.context -> idx], t \in idx : ScatterHolds(m, x, t)

\* train has just run the backward pass for a window that holds the same
\* index at both positions, and the two slices of that index had an
\* element that was zero in neither
C13_Witness ==
    /\ call.op = "train"
    /\ call.i >= 2
    /\ LET m == models[call.slot]
           x == m.dataset.inputs[call.i - 1]
           g == PairGrad(m, call.i - 1)
       IN  /\ m.context = 2
           /\ x[1] = x[2]
           /\ \E d \in 1..m.embed_dim :
                  /\ g.grad_x_flat[d] # 0
                  /\ g.grad_x_flat[m.embed_dim + d] # 0
                  /\ IsFinite(g.grad_x_flat[d])
                  /\ IsFinite(g.grad_x_flat[m.embed_dim + d])
           /\ \E v \in 1..Len(m.vocab) : g.gE[v] = zerovec(m.embed_dim)

====
